---- MODULE Spec2Model ----
(***************************************************************************)
(* Octopy: ModelSelector (selector.py) and ReportGenerator (Report.py).    *)
(*                                                                         *)
(* Text is modelled line by line.  Strings are ASCII: the pictographs that *)
(* open the report's labels are left out, the rest of each label is the    *)
(* source's.                                                               *)
(***************************************************************************)
EXTENDS Integers, Sequences, FiniteSets, TLC

VARIABLES
    df,               \* the caller's dataset, as ModelSelector reads it
    selector,         \* the ModelSelector object's fields, NoSelector before __init__
    problem_type_arg, \* the problem_type argument __init__ was called with
    returned,         \* the lists suggest_models has returned to the caller, in call order
    stdout,           \* the lines print_summary has printed
    report_path,      \* report_path[t]: the path held by the ReportGenerator thread t uses
    pc,               \* pc[t]: where thread t's generate_report call stands
    args,             \* args[t]: the arguments of thread t's call
    report_lines,     \* report_lines[t]: the call's local list of text blocks
    handle,           \* handle[t]: what the call's open file object still buffers
    calls,            \* calls[t]: generate_report calls thread t has made
    fs,               \* the file system: the content at each writable path
    console,          \* the confirmation lines printed, in order
    clock             \* the wall clock datetime.now() reads

selector_vars == <<df, selector, problem_type_arg, returned, stdout>>

report_vars == <<report_path, pc, args, report_lines, handle, calls, fs, console, clock>>

vars == <<selector_vars, report_vars>>

-----------------------------------------------------------------------------
(* Bounds.                                                                 *)

\* distinct class sizes a target column is drawn with
MaxGroups == 2
\* suggest_models / print_summary calls made on one selector
MaxCalls == 2
\* model blocks passed to one generate_report call
MaxModels == 2
\* generate_report calls one thread makes
MaxReportCalls == 2
\* seconds the wall clock advances
MaxClock == 1

-----------------------------------------------------------------------------
(* Values.                                                                 *)

\* Python's None, where a string may also stand
None == "<None>"

NoSelector == [constructed |-> FALSE]

\* Python truthiness of an optional string, as `x or y` and `if x:` test it
truthy(s) == s # None /\ s # ""

\* the sum of a bag of numbers given as a set of [count, mult] groups: count * mult
\* over the groups when byRows, mult over the groups otherwise
RECURSIVE SumGroups(_, _)
SumGroups(G, byRows) ==
    IF G = {} THEN 0
    ELSE LET g == CHOOSE h \in G : TRUE
         IN (IF byRows THEN g.count * g.mult ELSE g.mult)
            + SumGroups(G \ {g}, byRows)

SetMax(S) == CHOOSE x \in S : \A y \in S : y <= x
SetMin(S) == CHOOSE x \in S : \A y \in S : x <= y

RECURSIVE Gcd(_, _)
Gcd(a, b) == IF b = 0 THEN a ELSE Gcd(b, a % b)

\* a / b of two positive counts, as a float: a fraction in lowest terms, so that
\* equal quotients are equal values
TrueDiv(a, b) == [num |-> a \div Gcd(a, b), den |-> b \div Gcd(a, b)]

\* the float literal 1.0
One == [num |-> 1, den |-> 1]

\* r > n for a quotient r and an integer n
RatioGt(r, n) == r.num > n * r.den

-----------------------------------------------------------------------------
(* The dataset.  A target column is given by its value counts: a set of    *)
(* groups, `mult` distinct values occurring `count` times each, and the    *)
(* number of rows whose target is missing (NaN), which nunique and         *)
(* value_counts leave out and len counts.                                  *)

GroupCounts == {1, 50, 100, 300, 301}
GroupMults == {1, 20, 21}
Groups == [count : GroupCounts, mult : GroupMults]
ColumnCounts == {1, 11, 51, 52}

Datasets ==
    [ncols   : ColumnCounts,
     numeric : BOOLEAN,
     groups  : {G \in SUBSET Groups : Cardinality(G) <= MaxGroups},
     nulls   : {0, 1}]

\* len(df)
len(d) == SumGroups(d.groups, TRUE) + d.nulls

\* df[target].nunique()
nunique(d) == SumGroups(d.groups, FALSE)

\* the override strings a caller passes
ProblemTypeArgs == {None, "", "classification", "regression", "clustering"}

-----------------------------------------------------------------------------
(* ModelSelector.                                                          *)

\* the threshold read as exclusive
infer_problem_type_exclusive(d) ==
    IF d.numeric
    THEN IF nunique(d) < 20 THEN "classification" ELSE "regression"
    ELSE "classification"

infer_problem_type(d) ==
    IF d.numeric
    THEN IF nunique(d) <= 20 THEN "classification" ELSE "regression"
    ELSE "classification"

\* the quotient taken the wrong way round
calculate_imbalance_ratio_inverted(d, problem_type) ==
    IF problem_type # "classification" THEN One
    ELSE IF nunique(d) = 0 THEN One
    ELSE TrueDiv(SetMin({g.count : g \in d.groups}),
                 SetMax({g.count : g \in d.groups}))

calculate_imbalance_ratio(d, problem_type) ==
    IF problem_type # "classification" THEN One
    ELSE IF nunique(d) = 0 THEN One
    ELSE TrueDiv(SetMax({g.count : g \in d.groups}),
                 SetMin({g.count : g \in d.groups}))

\* list(dict.fromkeys(models)): the first occurrence of each name, in order
RECURSIVE dict_fromkeys(_)
dict_fromkeys(models) ==
    IF models = <<>> THEN <<>>
    ELSE LET front == dict_fromkeys(SubSeq(models, 1, Len(models) - 1))
             last == models[Len(models)]
         IN IF \E i \in 1..Len(front) : front[i] = last
            THEN front ELSE Append(front, last)

\* the feature threshold read as inclusive
suggest_classification_models_inclusive(s) ==
    LET m1 == IF s.num_samples < 1000
              THEN <<"Logistic Regression", "K-Nearest Neighbors">>
              ELSE <<"Random Forest Classifier", "XGBoost Classifier",
                     "Gradient Boosting Classifier">>
        m2 == IF s.num_features >= 50
              THEN Append(m1, "Support Vector Machine (with kernel)")
              ELSE m1
        m3 == IF RatioGt(s.imbalance_ratio, 3)
              THEN m2 \o <<"Balanced Random Forest", "SMOTE + Any Classifier">>
              ELSE m2
        m4 == Append(m3, "Dummy Classifier (baseline)")
    IN dict_fromkeys(m4)

suggest_classification_models(s) ==
    LET m1 == IF s.num_samples < 1000
              THEN <<"Logistic Regression", "K-Nearest Neighbors">>
              ELSE <<"Random Forest Classifier", "XGBoost Classifier",
                     "Gradient Boosting Classifier">>
        m2 == IF s.num_features > 50
              THEN Append(m1, "Support Vector Machine (with kernel)")
              ELSE m1
        m3 == IF RatioGt(s.imbalance_ratio, 3)
              THEN m2 \o <<"Balanced Random Forest", "SMOTE + Any Classifier">>
              ELSE m2
        m4 == Append(m3, "Dummy Classifier (baseline)")
    IN dict_fromkeys(m4)

suggest_regression_models(s) ==
    LET m1 == IF s.num_samples < 1000
              THEN <<"Linear Regression", "K-Nearest Neighbors Regressor">>
              ELSE <<"Random Forest Regressor", "XGBoost Regressor",
                     "Gradient Boosting Regressor">>
        m2 == IF s.num_features > 50
              THEN Append(m1, "Support Vector Regressor (with kernel)")
              ELSE m1
        m3 == Append(m2, "Dummy Regressor (baseline)")
    IN dict_fromkeys(m3)

suggest_models(s) ==
    IF s.problem_type = "classification" THEN suggest_classification_models(s)
    ELSE IF s.problem_type = "regression" THEN suggest_regression_models(s)
    ELSE <<>>

\* f"{x:.2f}" of a quotient: the nearest hundredth, a tie going to the even one
\* (the drawn counts give no tie)
RoundHundredths(r) ==
    LET n == 100 * r.num
        q == n \div r.den
        rem2 == 2 * (n % r.den)
    IN IF rem2 > r.den \/ (rem2 = r.den /\ q % 2 = 1) THEN q + 1 ELSE q

Pad2(n) == IF n < 10 THEN "0" \o ToString(n) ELSE ToString(n)

format_2f(r) ==
    LET h == RoundHundredths(r)
    IN ToString(h \div 100) \o "." \o Pad2(h % 100)

summary_lines(s) ==
    <<"Problem type: " \o s.problem_type,
      "Samples: " \o ToString(s.num_samples),
      "Features (excluding target): " \o ToString(s.num_features)>>
    \o (IF s.problem_type = "classification"
        THEN <<"Target classes: " \o ToString(s.target_unique),
               "Class imbalance ratio: " \o format_2f(s.imbalance_ratio)>>
        ELSE <<>>)
    \o <<"", "Recommended models:">>
    \o [i \in 1..Len(suggest_models(s)) |-> "- " \o suggest_models(s)[i]]

\* ModelSelector(df, target, problem_type)
ModelSelector_init ==
    /\ ~selector.constructed
    /\ \E arg \in ProblemTypeArgs :
         LET problem_type == IF truthy(arg) THEN arg ELSE infer_problem_type(df)
         IN /\ problem_type_arg' = arg
            /\ selector' = [constructed     |-> TRUE,
                            problem_type    |-> problem_type,
                            num_samples     |-> len(df),
                            num_features    |-> df.ncols - 1,
                            target_unique   |-> nunique(df),
                            imbalance_ratio |->
                                calculate_imbalance_ratio(df, problem_type)]
    /\ UNCHANGED <<df, returned, stdout>>
    /\ UNCHANGED report_vars

Calls == Len(returned) + Cardinality({i \in 1..Len(stdout) : stdout[i] = "Recommended models:"})

\* selector.suggest_models(), the list handed to the caller
call_suggest_models ==
    /\ selector.constructed
    /\ Calls < MaxCalls
    /\ returned' = Append(returned, suggest_models(selector))
    /\ UNCHANGED <<df, selector, problem_type_arg, stdout>>
    /\ UNCHANGED report_vars

\* print_summary keeping the rounded ratio it printed
print_summary_rounds ==
    /\ selector.constructed
    /\ Calls < MaxCalls
    /\ stdout' = stdout \o summary_lines(selector)
    /\ selector' = [selector EXCEPT !.imbalance_ratio =
                        TrueDiv(RoundHundredths(selector.imbalance_ratio), 100)]
    /\ UNCHANGED <<df, problem_type_arg, returned>>
    /\ UNCHANGED report_vars

\* selector.print_summary()
print_summary ==
    /\ selector.constructed
    /\ Calls < MaxCalls
    /\ stdout' = stdout \o summary_lines(selector)
    /\ UNCHANGED <<df, selector, problem_type_arg, returned>>
    /\ UNCHANGED report_vars

-----------------------------------------------------------------------------
(* ReportGenerator: the inputs.                                            *)

Threads == {1, 2}

DefaultPath == "octopy_model_report.txt"
WritablePaths == {DefaultPath, "experiment_2.txt"}
\* a path open() refuses (its directory does not exist)
Paths == WritablePaths \cup {"missing_dir/report.txt"}

\* a metric value: a float given in units of 0.00001, or a string
Float(e5) == [numeric |-> TRUE, e5 |-> e5, s |-> ""]
Str(s) == [numeric |-> FALSE, e5 |-> 0, s |-> s]

Item(k, v) == [key |-> k, value |-> v]

\* a dict entry that may be missing: dict.get(key) is None when has is FALSE
Missing == [has |-> FALSE, items |-> <<>>]
Dict(items) == [has |-> TRUE, items |-> items]

MetricsChoices ==
    {Missing, Dict(<<>>),
     Dict(<<Item("accuracy", Float(95674)), Item("f1", Float(8316))>>),
     Dict(<<Item("accuracy", Float(95674)), Item("loss", Str("n/a"))>>)}

\* a whole number
Whole(n) == Float(100000 * n)

HyperparamsChoices ==
    {Missing, Dict(<<>>),
     Dict(<<Item("n_estimators", Whole(100)), Item("criterion", Str("gini"))>>)}

NameChoices == {None, "M1"}

\* a per-model block; name is None when the block has no 'name' key
Blocks == [name : NameChoices, metrics : MetricsChoices, hyperparams : HyperparamsChoices]

\* an optional list argument
NoList == [given |-> FALSE, items |-> <<>>]
List(items) == [given |-> TRUE, items |-> items]

ModelLists == UNION {[1..n -> Blocks] : n \in 0..MaxModels}

\* every list of blocks, with each optional argument left out or empty, and given
AllInputs ==
    [models              : ModelLists,
     dataset_description : {None, "Iris, 150 rows"},
     preprocessing_steps : {NoList, List(<<>>), List(<<"impute", "scale">>)},
     issues              : {NoList, List(<<>>), List(<<"overfits", "slow">>)},
     conclusion          : {"", "Use M1"}]

NoArgs ==
    [models |-> <<>>, dataset_description |-> None, preprocessing_steps |-> NoList,
     issues |-> NoList, conclusion |-> None]

BlockOK == [name |-> "M1", metrics |-> Dict(<<Item("accuracy", Float(95674)), Item("f1", Float(8316))>>),
            hyperparams |-> Missing]
BlockBare == [name |-> None, metrics |-> Missing, hyperparams |-> Missing]
BlockBad == [name |-> "M1", metrics |-> Dict(<<Item("accuracy", Float(95674)), Item("loss", Str("n/a"))>>),
             hyperparams |-> Missing]

\* the calls the file-writing specifications draw from
CallInputs ==
    {[NoArgs EXCEPT !.models = <<BlockOK>>],
     [NoArgs EXCEPT !.models = <<BlockBare>>, !.conclusion = "Use M1"],
     [NoArgs EXCEPT !.models = <<BlockOK, BlockBad>>, !.dataset_description = "Iris, 150 rows"]}

-----------------------------------------------------------------------------
(* ReportGenerator: the text.                                              *)

\* a line of text; kind names what the line is, text is what is written
Line(kind, text) == [kind |-> kind, text |-> text]
Blank == Line("blank", "")

RECURSIVE Repeat(_, _)
Repeat(c, n) == IF n = 0 THEN "" ELSE c \o Repeat(c, n - 1)

RECURSIVE Flatten(_)
Flatten(ss) == IF ss = <<>> THEN <<>> ELSE Head(ss) \o Flatten(Tail(ss))

\* "\n".join(blocks): the lines of the blocks, one after the other (a block holding
\* "\n" is several lines)
join(blocks) == Flatten(blocks)

\* datetime.datetime.now().strftime('%Y-%m-%d %H:%M:%S')
strftime(t) == "2025-01-01 00:00:0" \o ToString(t)

Pad4(n) ==
    IF n < 10 THEN "000" \o ToString(n)
    ELSE IF n < 100 THEN "00" \o ToString(n)
    ELSE IF n < 1000 THEN "0" \o ToString(n)
    ELSE ToString(n)

\* f"{value:.4f}" of a float: the nearest ten-thousandth (the drawn values give no tie)
format_4f(v) ==
    LET t == (v.e5 + 5) \div 10
    IN ToString(t \div 10000) \o "." \o Pad4(t % 10000)

\* str(v), as an f-string renders a value with no format spec (the numbers among
\* the drawn hyperparameters are whole)
str(v) == IF v.numeric THEN ToString(v.e5 \div 100000) ELSE v.s

format_metrics(metrics_dict) ==
    IF metrics_dict = <<>> THEN <<Blank>> ELSE
    [i \in 1..Len(metrics_dict) |->
        Line("metric", "  - " \o metrics_dict[i].key \o ": "
                        \o format_4f(metrics_dict[i].value))]

\* f"{value:.4f}" raises on a value that is no number
format_metrics_raises(metrics_dict) ==
    \E i \in 1..Len(metrics_dict) : ~metrics_dict[i].value.numeric

format_hyperparams(hyperparams) ==
    IF hyperparams = <<>> THEN <<Blank>> ELSE
    [i \in 1..Len(hyperparams) |->
        Line("hyperparam", "  - " \o hyperparams[i].key \o ": "
                            \o str(hyperparams[i].value))]

\* the test `key in model_info` in place of the truth of the value
dict_truthy_present(d) == d.has

\* bool(model_info.get(key)) of a dict entry
dict_truthy(d) == d.has /\ d.items # <<>>

\* bool(x) of an optional list argument
list_truthy(l) == l.given /\ l.items # <<>>

\* enumerate(models) left at its default start
model_header_from_0(idx, model_info) ==
    "Model " \o ToString(idx - 1) \o ": "
        \o (IF model_info.name = None THEN "Unnamed Model" ELSE model_info.name)

\* f"Model {idx}: {model_info.get('name', 'Unnamed Model')}"
model_header(idx, model_info) ==
    "Model " \o ToString(idx) \o ": "
        \o (IF model_info.name = None THEN "Unnamed Model" ELSE model_info.name)

model_blocks(idx, model_info) ==
    << <<Blank, Line("model_header", model_header(idx, model_info))>>,
       <<Line("model_rule", Repeat("-", 40))>> >>
    \o (IF dict_truthy(model_info.metrics)
        THEN << <<Line("metrics_label", "Metrics:")>>,
                format_metrics(model_info.metrics.items) >>
        ELSE << <<Line("metrics_not_provided", "Metrics: Not provided")>> >>)
    \o (IF dict_truthy(model_info.hyperparams)
        THEN << <<Blank, Line("hyperparams_label", "Hyperparameters:")>>,
                format_hyperparams(model_info.hyperparams.items) >>
        ELSE <<>>)

bullets(kind, items) ==
    [i \in 1..Len(items) |-> <<Line(kind, "  - " \o items[i])>>]

\* the list report_lines as lines 21-61 leave it, for a call that raises nothing
build_report_lines(a, now) ==
    << <<Line("title", "OCTOPY MODEL REPORT - " \o strftime(now))>>,
       <<Line("rule", Repeat("=", 60))>> >>
    \o (IF truthy(a.dataset_description)
        THEN << <<Blank, Line("dataset_label", "Dataset Description:"),
                  Line("dataset_text", a.dataset_description)>> >>
        ELSE <<>>)
    \o (IF list_truthy(a.preprocessing_steps)
        THEN << <<Blank, Line("preprocessing_label", "Preprocessing Steps:")>> >>
             \o bullets("step", a.preprocessing_steps.items)
        ELSE <<>>)
    \o Flatten([i \in 1..Len(a.models) |-> model_blocks(i, a.models[i])])
    \o (IF list_truthy(a.issues)
        THEN << <<Blank, Line("issues_label", "Known Issues / Observations:")>> >>
             \o bullets("issue", a.issues.items)
        ELSE <<>>)
    \o (IF truthy(a.conclusion)
        THEN << <<Blank, Line("conclusion_label", "Conclusion / Notes:")>>,
                <<Line("conclusion_text", a.conclusion)>> >>
        ELSE <<>>)

\* whether lines 21-61 raise: some model's metrics are rendered and hold a value
\* that is no number
build_raises(a) ==
    \E i \in 1..Len(a.models) :
        /\ dict_truthy(a.models[i].metrics)
        /\ format_metrics_raises(a.models[i].metrics.items)

-----------------------------------------------------------------------------
(* ReportGenerator: the file.                                              *)

NoFile == [exists |-> FALSE, lines |-> <<>>]
File(lines) == [exists |-> TRUE, lines |-> lines]

Closed == [open |-> FALSE, path |-> "", buffer |-> <<>>]

\* the content at path p, NoFile where there is none
file_at(files, p) == IF p \in DOMAIN files THEN files[p] ELSE NoFile

\* a write of data at offset 0 of a file holding old
write_at_0(old, data) == data \o SubSeq(old, Len(data) + 1, Len(old))

\* generate_report is entered: line 21
call(t, a) ==
    /\ pc[t] \in {"idle", "returned", "raised"}
    /\ calls[t] < MaxReportCalls
    /\ calls' = [calls EXCEPT ![t] = @ + 1]
    /\ args' = [args EXCEPT ![t] = a]
    /\ report_lines' = [report_lines EXCEPT ![t] = <<>>]
    /\ pc' = [pc EXCEPT ![t] = "build"]
    /\ UNCHANGED <<report_path, handle, fs, console, clock>>
    /\ UNCHANGED selector_vars

\* the file opened before the text is built
build_after_open(t) ==
    /\ pc[t] = "build"
    /\ fs' = IF report_path[t] \in WritablePaths
             THEN [fs EXCEPT ![report_path[t]] = File(<<>>)] ELSE fs
    /\ IF build_raises(args[t])
       THEN /\ pc' = [pc EXCEPT ![t] = "raised"]
            /\ UNCHANGED report_lines
       ELSE /\ pc' = [pc EXCEPT ![t] = "open"]
            /\ report_lines' = [report_lines EXCEPT ![t] = build_report_lines(args[t], clock)]
    /\ UNCHANGED <<report_path, args, handle, calls, console, clock>>
    /\ UNCHANGED selector_vars

\* lines 23-61: the text is built, or a metric's formatting raises
build(t) ==
    /\ pc[t] = "build"
    /\ IF build_raises(args[t])
       THEN /\ pc' = [pc EXCEPT ![t] = "raised"]
            /\ UNCHANGED report_lines
       ELSE /\ pc' = [pc EXCEPT ![t] = "open"]
            /\ report_lines' = [report_lines EXCEPT ![t] = build_report_lines(args[t], clock)]
    /\ UNCHANGED <<report_path, args, handle, calls, fs, console, clock>>
    /\ UNCHANGED selector_vars

\* the file opened for update: created when missing, its content kept
open_no_truncate(t) ==
    /\ pc[t] = "open"
    /\ IF report_path[t] \in WritablePaths
       THEN /\ fs' = [fs EXCEPT ![report_path[t]] = File(@.lines)]
            /\ handle' = [handle EXCEPT ![t] = [open |-> TRUE, path |-> report_path[t],
                                                buffer |-> <<>>]]
            /\ pc' = [pc EXCEPT ![t] = "write"]
       ELSE /\ pc' = [pc EXCEPT ![t] = "raised"]
            /\ UNCHANGED <<fs, handle>>
    /\ UNCHANGED <<report_path, args, report_lines, calls, console, clock>>
    /\ UNCHANGED selector_vars

\* the path kept in one place for every generator
open_shared_path(t) ==
    /\ pc[t] = "open"
    /\ fs' = [fs EXCEPT ![DefaultPath] = File(<<>>)]
    /\ handle' = [handle EXCEPT ![t] = [open |-> TRUE, path |-> DefaultPath,
                                        buffer |-> <<>>]]
    /\ pc' = [pc EXCEPT ![t] = "write"]
    /\ UNCHANGED <<report_path, args, report_lines, calls, console, clock>>
    /\ UNCHANGED selector_vars

\* line 64: open(self.report_path, "w") creates or truncates the file, or raises
open(t) ==
    /\ pc[t] = "open"
    /\ IF report_path[t] \in WritablePaths
       THEN /\ fs' = [fs EXCEPT ![report_path[t]] = File(<<>>)]
            /\ handle' = [handle EXCEPT ![t] = [open |-> TRUE, path |-> report_path[t],
                                                buffer |-> <<>>]]
            /\ pc' = [pc EXCEPT ![t] = "write"]
       ELSE /\ pc' = [pc EXCEPT ![t] = "raised"]
            /\ UNCHANGED <<fs, handle>>
    /\ UNCHANGED <<report_path, args, report_lines, calls, console, clock>>
    /\ UNCHANGED selector_vars

\* line 65: file.write(...) hands the text to the file object, which keeps it in its
\* buffer or, when the text outgrows the buffer, writes it through
write(t) ==
    /\ pc[t] = "write"
    /\ \/ /\ handle' = [handle EXCEPT ![t].buffer = join(report_lines[t])]
          /\ UNCHANGED fs
       \/ /\ fs' = [fs EXCEPT ![handle[t].path] =
                        File(write_at_0(@.lines, join(report_lines[t])))]
          /\ UNCHANGED handle
    /\ pc' = [pc EXCEPT ![t] = "close"]
    /\ UNCHANGED <<report_path, args, report_lines, calls, console, clock>>
    /\ UNCHANGED selector_vars

\* the end of the with block: the buffer is flushed and the file closed
close(t) ==
    /\ pc[t] = "close"
    /\ fs' = IF handle[t].buffer = <<>> THEN fs
             ELSE [fs EXCEPT ![handle[t].path] =
                       File(write_at_0(@.lines, handle[t].buffer))]
    /\ handle' = [handle EXCEPT ![t] = Closed]
    /\ pc' = [pc EXCEPT ![t] = "print"]
    /\ UNCHANGED <<report_path, args, report_lines, calls, console, clock>>
    /\ UNCHANGED selector_vars

\* line 67: the confirmation, and the call returns
print(t) ==
    /\ pc[t] = "print"
    /\ console' = Append(console, "Report generated and saved as: " \o report_path[t])
    /\ pc' = [pc EXCEPT ![t] = "returned"]
    /\ UNCHANGED <<report_path, args, report_lines, handle, calls, fs, clock>>
    /\ UNCHANGED selector_vars

\* a second passes
tick ==
    /\ clock < MaxClock
    /\ clock' = clock + 1
    /\ UNCHANGED <<report_path, pc, args, report_lines, handle, calls, fs, console>>
    /\ UNCHANGED selector_vars

generate_report(t) ==
    \/ \E a \in CallInputs : call(t, a)
    \/ build(t)
    \/ open(t)
    \/ write(t)
    \/ close(t)
    \/ print(t)

-----------------------------------------------------------------------------
(* Specifications.                                                         *)

SelectorInit ==
    /\ df \in Datasets
    /\ selector = NoSelector
    /\ problem_type_arg = None
    /\ returned = <<>>
    /\ stdout = <<>>

\* no dataset is under study
SelectorIdle ==
    /\ df = [ncols |-> 1, numeric |-> TRUE, groups |-> {}, nulls |-> 0]
    /\ selector = NoSelector
    /\ problem_type_arg = None
    /\ returned = <<>>
    /\ stdout = <<>>

\* ReportGenerator(report_path) has been constructed for each thread
ReportInit ==
    /\ report_path \in [Threads -> Paths]
    /\ pc = [t \in Threads |-> "idle"]
    /\ args = [t \in Threads |-> NoArgs]
    /\ report_lines = [t \in Threads |-> <<>>]
    /\ handle = [t \in Threads |-> Closed]
    /\ calls = [t \in Threads |-> 0]
    /\ fs = [p \in WritablePaths |-> NoFile]
    /\ console = <<>>
    /\ clock = 0

\* no report is being written
ReportIdle ==
    /\ ReportInit
    /\ report_path = [t \in Threads |-> DefaultPath]

\* the selector, used by one caller
Init == SelectorInit /\ ReportIdle

Next ==
    \/ ModelSelector_init
    \/ call_suggest_models
    \/ print_summary

Spec == Init /\ [][Next]_vars

\* one thread calling generate_report again and again
ReportNext ==
    \/ generate_report(1)
    \/ tick

\* the generators constructed, each on a path of its own choosing
GeneratorsInit == SelectorIdle /\ ReportInit

ReportSpec == GeneratorsInit /\ [][ReportNext]_vars

\* two threads, each calling generate_report on its own ReportGenerator
ConcurrentNext ==
    \/ \E t \in Threads : generate_report(t)
    \/ tick

ConcurrentSpec == GeneratorsInit /\ [][ConcurrentNext]_vars

\* one call of generate_report on every input, up to its write
RenderNext ==
    \/ calls[1] = 0 /\ \E a \in AllInputs : call(1, a)
    \/ build(1)

\* one generator, constructed with the default path
RenderInit == SelectorIdle /\ ReportIdle

RenderSpec == RenderInit /\ [][RenderNext]_vars

-----------------------------------------------------------------------------
(* Properties.                                                             *)

NonEmptyText(x) == x # None /\ x # ""
NonEmptyList(l) == l.given /\ Len(l.items) > 0
NonEmptyDict(d) == d.has /\ Len(d.items) > 0

OfKind(L, k) == SelectSeq(L, LAMBDA l : l.kind = k)
Texts(L) == [i \in 1..Len(L) |-> L[i].text]
Bulleted(items) == [i \in 1..Len(items) |-> "  - " \o items[i]]

\* C1: with no override, problem_type is 'classification' for a numeric target of
\* at most 20 distinct values, 'regression' for a numeric target of more than 20,
\* and 'classification' for every non-numeric target; with a valid override it is
\* the override.
C1_ProblemType ==
    selector.constructed =>
        /\ problem_type_arg = None =>
            /\ (df.numeric /\ nunique(df) <= 20) => selector.problem_type = "classification"
            /\ (df.numeric /\ nunique(df) > 20) => selector.problem_type = "regression"
            /\ ~df.numeric => selector.problem_type = "classification"
        /\ problem_type_arg \in {"classification", "regression"} =>
            selector.problem_type = problem_type_arg

C1_Witness ==
    /\ selector.constructed
    /\ problem_type_arg = None
    /\ df.numeric
    /\ nunique(df) = 20
    /\ selector.problem_type = "classification"

\* the list the rule set of s.problem_type prescribes
Prescribed(s) ==
    IF s.problem_type = "classification"
    THEN (IF s.num_samples < 1000
          THEN <<"Logistic Regression", "K-Nearest Neighbors">>
          ELSE <<"Random Forest Classifier", "XGBoost Classifier",
                 "Gradient Boosting Classifier">>)
         \o (IF s.num_features > 50
             THEN <<"Support Vector Machine (with kernel)">> ELSE <<>>)
         \o (IF s.imbalance_ratio.num > 3 * s.imbalance_ratio.den
             THEN <<"Balanced Random Forest", "SMOTE + Any Classifier">> ELSE <<>>)
         \o <<"Dummy Classifier (baseline)">>
    ELSE (IF s.num_samples < 1000
          THEN <<"Linear Regression", "K-Nearest Neighbors Regressor">>
          ELSE <<"Random Forest Regressor", "XGBoost Regressor",
                 "Gradient Boosting Regressor">>)
         \o (IF s.num_features > 50
             THEN <<"Support Vector Regressor (with kernel)">> ELSE <<>>)
         \o <<"Dummy Regressor (baseline)">>

\* C2: every list suggest_models returns is the one the rule set of problem_type
\* prescribes (size group, kernel model iff num_features > 50, for classification
\* the two imbalance names iff imbalance_ratio > 3, the Dummy baseline last), has
\* no duplicates, and is the same on every call.
C2_SuggestedModels ==
    (selector.constructed /\ selector.problem_type \in {"classification", "regression"}) =>
        \A i \in 1..Len(returned) :
            /\ returned[i] = Prescribed(selector)
            /\ \A j, k \in 1..Len(returned[i]) : j # k => returned[i][j] # returned[i][k]
            /\ returned[i] = returned[1]

C2_Witness ==
    /\ selector.constructed
    /\ selector.problem_type = "classification"
    /\ selector.num_samples >= 1000
    /\ selector.num_features = 51
    /\ selector.imbalance_ratio.num > 3 * selector.imbalance_ratio.den
    /\ Len(returned) = 2

\* C3: every override string outside {'classification', 'regression'} is kept as
\* problem_type, and suggest_models then returns the empty sequence.
C3_InvalidOverrideKept ==
    (selector.constructed /\ problem_type_arg \notin {None, "classification", "regression"}) =>
        /\ selector.problem_type = problem_type_arg
        /\ \A i \in 1..Len(returned) : returned[i] = <<>>

C5_LastReportOnly ==
    pc[1] = "returned" =>
        file_at(fs, report_path[1]) = File(join(report_lines[1]))

C5_Witness ==
    /\ pc[1] = "returned"
    /\ calls[1] = 2
    /\ Len(console) = 2

Rank(kind) ==
    CASE kind = "title" -> 0
      [] kind = "rule" -> 1
      [] kind \in {"dataset_label", "dataset_text"} -> 2
      [] kind \in {"preprocessing_label", "step"} -> 3
      [] kind \in {"model_header", "model_rule", "metrics_label", "metric",
                   "metrics_not_provided", "hyperparams_label", "hyperparam"} -> 4
      [] kind \in {"issues_label", "issue"} -> 5
      [] kind \in {"conclusion_label", "conclusion_text"} -> 6

\* the lines of the text thread 1 has built, blank lines left out
Built == SelectSeq(join(report_lines[1]), LAMBDA l : l.kind # "blank")

\* C7: the report is the header line, the rule of 60 '=', then the dataset
\* description, the preprocessing steps, one block per model in input order
\* numbered from 1, the issues and the conclusion, in that order; each of the four
\* optional sections is there iff its argument is non-empty, and steps and issues
\* are bulleted in the order given.
C7_SectionOrder ==
    pc[1] = "open" =>
        LET a == args[1]
            L == Built
        IN /\ L[1].kind = "title"
           /\ L[2].kind = "rule"
           /\ L[2].text = "============================================================"
           /\ Len(OfKind(L, "title")) = 1
           /\ Len(OfKind(L, "rule")) = 1
           /\ \A i, j \in 1..Len(L) : i < j => Rank(L[i].kind) <= Rank(L[j].kind)
           /\ Len(OfKind(L, "dataset_label")) = (IF NonEmptyText(a.dataset_description) THEN 1 ELSE 0)
           /\ Texts(OfKind(L, "dataset_text")) =
                (IF NonEmptyText(a.dataset_description) THEN <<a.dataset_description>> ELSE <<>>)
           /\ Len(OfKind(L, "preprocessing_label")) = (IF NonEmptyList(a.preprocessing_steps) THEN 1 ELSE 0)
           /\ Texts(OfKind(L, "step")) = Bulleted(a.preprocessing_steps.items)
           /\ Len(OfKind(L, "model_header")) = Len(a.models)
           /\ \A i \in 1..Len(a.models) :
                OfKind(L, "model_header")[i].text =
                    "Model " \o ToString(i) \o ": "
                        \o (IF a.models[i].name = None THEN "Unnamed Model" ELSE a.models[i].name)
           /\ Len(OfKind(L, "issues_label")) = (IF NonEmptyList(a.issues) THEN 1 ELSE 0)
           /\ Texts(OfKind(L, "issue")) = Bulleted(a.issues.items)
           /\ Len(OfKind(L, "conclusion_label")) = (IF NonEmptyText(a.conclusion) THEN 1 ELSE 0)
           /\ Texts(OfKind(L, "conclusion_text")) =
                (IF NonEmptyText(a.conclusion) THEN <<a.conclusion>> ELSE <<>>)

C7_Witness ==
    /\ pc[1] = "open"
    /\ Len(args[1].models) = 2
    /\ NonEmptyText(args[1].dataset_description)
    /\ NonEmptyList(args[1].preprocessing_steps)
    /\ NonEmptyList(args[1].issues)
    /\ NonEmptyText(args[1].conclusion)
    /\ Len(OfKind(Built, "model_header")) = 2

\* the lines of the i-th model block of L: from its header up to the next header
ModelBlock(L, i) ==
    LET M == SelectSeq(L, LAMBDA l : Rank(l.kind) = 4)
        at(k) == CHOOSE p \in 1..Len(M) :
                    /\ M[p].kind = "model_header"
                    /\ Cardinality({q \in 1..p : M[q].kind = "model_header"}) = k
        last == IF i = Len(OfKind(M, "model_header")) THEN Len(M) ELSE at(i + 1) - 1
    IN SubSeq(M, at(i), last)

\* the drawn metric values to four decimal places
FourDecimals(v) ==
    CASE v.e5 = 95674 -> "0.9567"
      [] v.e5 = 8316 -> "0.0832"

\* the drawn hyperparameter values as text
AsText(v) == IF v.numeric /\ v.e5 = 10000000 THEN "100" ELSE v.s

\* C8: in every model block the header reads 'Unnamed Model' iff the block has no
\* name key; 'Metrics: Not provided' is rendered iff the metrics mapping is absent
\* or empty, and otherwise a metrics header followed by one '  - name: value' line
\* per metric in mapping order; a hyperparameters section is rendered iff the
\* hyperparams mapping is present and non-empty.
C8_ModelBlock ==
    pc[1] = "open" =>
        \A i \in 1..Len(args[1].models) :
            LET m == args[1].models[i]
                B == ModelBlock(Built, i)
                n == IF NonEmptyDict(m.metrics) THEN Len(m.metrics.items) ELSE 0
            IN /\ B[1].kind = "model_header"
               /\ (B[1].text = "Model " \o ToString(i) \o ": Unnamed Model") <=> (m.name = None)
               /\ B[2] = Line("model_rule", "----------------------------------------")
               /\ (B[3] = Line("metrics_not_provided", "Metrics: Not provided"))
                    <=> ~NonEmptyDict(m.metrics)
               /\ Len(OfKind(B, "metrics_not_provided")) = (IF NonEmptyDict(m.metrics) THEN 0 ELSE 1)
               /\ NonEmptyDict(m.metrics) =>
                    /\ B[3].kind = "metrics_label"
                    /\ \A k \in 1..n :
                        B[3 + k] = Line("metric", "  - " \o m.metrics.items[k].key \o ": "
                                                  \o FourDecimals(m.metrics.items[k].value))
               /\ Len(OfKind(B, "metrics_label")) = (IF NonEmptyDict(m.metrics) THEN 1 ELSE 0)
               /\ Len(OfKind(B, "metric")) = n
               /\ Len(OfKind(B, "hyperparams_label")) = (IF NonEmptyDict(m.hyperparams) THEN 1 ELSE 0)
               /\ Texts(OfKind(B, "hyperparam")) =
                    (IF NonEmptyDict(m.hyperparams)
                     THEN [k \in 1..Len(m.hyperparams.items) |->
                              "  - " \o m.hyperparams.items[k].key \o ": "
                                  \o AsText(m.hyperparams.items[k].value)]
                     ELSE <<>>)
               /\ NonEmptyDict(m.hyperparams) =>
                    /\ B[3 + (IF n = 0 THEN 1 ELSE n + 1)].kind = "hyperparams_label"
                    /\ Len(B) = 3 + (IF n = 0 THEN 1 ELSE n + 1) + Len(m.hyperparams.items)

C8_Witness ==
    /\ pc[1] = "open"
    /\ Len(args[1].models) = 2
    /\ args[1].models[1].name = None
    /\ ~args[1].models[1].metrics.has
    /\ args[1].models[2].metrics.has /\ args[1].models[2].metrics.items = <<>>
    /\ NonEmptyDict(args[1].models[2].hyperparams)
    /\ Len(OfKind(Built, "metrics_not_provided")) = 2

\* C9: once constructed, no call changes the selector's fields or the dataset,
\* and the fields are those the constructor computes from the dataset, the
\* imbalance ratio being the one of the problem type the selector holds.
C9_FieldsFixed ==
    /\ [][selector.constructed => (selector' = selector /\ df' = df)]_vars
    /\ [](selector.constructed =>
            /\ selector.num_samples = len(df)
            /\ selector.num_features = df.ncols - 1
            /\ selector.target_unique = nunique(df)
            /\ selector.imbalance_ratio =
                 calculate_imbalance_ratio(df, selector.problem_type))

C9_Witness ==
    /\ selector.constructed
    /\ selector.imbalance_ratio = [num |-> 301, den |-> 300]
    /\ Len(returned) = 1
    /\ Len(stdout) > 0

\* C10: when the two generators hold distinct paths, a call that has returned
\* leaves at its path exactly its own report, whatever the other thread is doing.
C10_DistinctPathsIndependent ==
    report_path[1] # report_path[2] =>
        \A t \in Threads :
            pc[t] = "returned" =>
                file_at(fs, report_path[t]) = File(join(report_lines[t]))

C10_Witness ==
    /\ report_path[1] # report_path[2]
    /\ \A t \in Threads : pc[t] = "returned" /\ calls[t] = 2
    /\ args[1] # args[2]
    /\ file_at(fs, report_path[1]) # file_at(fs, report_path[2])

====
